---- MODULE Spec2Model ----
(***************************************************************************)
(* Model of crypto_trade_bot: the concurrent trend scan                    *)
(* (TradingUsecase.AnalyzeTrends) and the single-position trade controller *)
(* (TradingUsecase.ExecuteTrade), as dispatched by main.                   *)
(*                                                                         *)
(* Numbers.  Prices, indicator values and amounts are integers.  A kline   *)
(* field is a string of the exchange: it is modelled as a record saying    *)
(* whether strconv.ParseFloat accepts it and, if so, the value it yields.  *)
(* targetPrice is kept in hundredths (entryPrice * 101 or * 99), so that   *)
(* the comparison latestPrice >= targetPrice is exact.                     *)
(***************************************************************************)
EXTENDS Integers, Sequences, FiniteSets, TLC

\* ---------------------------------------------------------------- bounds
\* Largest symbol universe the market-universe lookup returns.
NumSymbols == 2
\* Largest number of iterations of the monitor loop that are explored.
MaxPolls == 3

\* ------------------------------------------------------ program constants
\* len(closePrices) < 26: the shortest history the indicators are run on.
KlineMin == 26
\* k[2]: the (0-based) index of the close price in a candle record.
CloseField == 2
\* lastRsi < 70.0
RsiOverbought == 70
\* lastRsi > 30.0
RsiOversold == 30
\* entryPrice * 1.01, in hundredths.
TakeProfitLong == 101
\* entryPrice * 0.99, in hundredths.
TakeProfitShort == 99

VARIABLES
    mode,            \* main: "analysis" or "trade" (the -trade flag)
    proc,            \* the process: "running", "fatal" (log.Fatalf), "panicked", "exited"
                     \* (a task's tpc is "panicked" from its panic until that exit)
    \* --- gateway stubs of the scan: what the collaborators answer
    topResp,         \* answer of GetTop20USDTpairsByVolume
    klineResp,       \* answer of GetKlines, per symbol
    talibOut,        \* what talib.Macd / talib.Rsi yield on the symbol's closes
    \* --- AnalyzeTrends
    mpc,             \* position of AnalyzeTrends
    pairs,           \* the symbols to scan
    launched,        \* loop index of the fan-out loop
    wg,              \* sync.WaitGroup counter
    mu,              \* sync.Mutex: 0 when free, else the task holding it
    tpc,             \* position of each analysis goroutine
    tmp,             \* per goroutine: the slice value read by append
    longCandidates,
    shortCandidates,
    asks,            \* the calls made to OpenAIGateway.AskAboutAssets
    \* --- ExecuteTrade
    side,
    execute,
    amountUSD,
    xpc,             \* position of ExecuteTrade
    currentPrice,
    size,
    targetPrice,
    polls,           \* iterations of the monitor loop started so far
    gwCalls          \* the calls made to the KuCoin gateway by ExecuteTrade

scanVars == <<topResp, klineResp, talibOut, mpc, pairs, launched, wg, mu, tpc, tmp,
              longCandidates, shortCandidates, asks>>
tradeVars == <<side, execute, amountUSD, xpc, currentPrice, size, targetPrice, polls,
               gwCalls>>
vars == <<mode, proc, scanVars, tradeVars>>

Symbols == 1..NumSymbols

\* ------------------------------------------------------------ kline data
\* A field of a candle record: a string ParseFloat accepts (with its value) or not.
Num(v) == [parses |-> TRUE, val |-> v]
Junk == [parses |-> FALSE, val |-> 0]

\* A candle record with a close price field, and one without (fewer than 3 fields).
Candle(close) == <<Num(0), Num(100), close>>
ShortCandle == <<Num(0), Num(100)>>

\* A newest-first history of n candles: closes c1 (newest) and c2 (one interval
\* earlier), 100 before that; record `junkAt` has an unparseable close, record
\* `shortAt` has no close field (0: no such record).
MkKlines(n, c1, c2, junkAt, shortAt) ==
    [i \in 1..n |->
        IF i = shortAt THEN ShortCandle
        ELSE IF i = junkAt THEN Candle(Junk)
        ELSE IF i = 1 THEN Candle(Num(c1))
        ELSE IF i = 2 THEN Candle(Num(c2))
        ELSE Candle(Num(100))]

KlineOk(data) == [err |-> FALSE, data |-> data]
KlineErr == [err |-> TRUE, data |-> <<>>]

\* Histories that reach the classifier.
GoodKlines ==
    { KlineOk(MkKlines(KlineMin, 105, 100, 0, 0)),
      KlineOk(MkKlines(KlineMin + 1, 100, 0, 0, 0)),
      KlineOk(MkKlines(KlineMin, 100, 100, 0, 0)),
      KlineOk(MkKlines(KlineMin, 100, 105, 0, 0)) }
\* Histories that do not: lookup error, too short, unparseable close.
FailingKlines ==
    { KlineErr,
      KlineOk(MkKlines(KlineMin - 1, 105, 100, 0, 0)),
      KlineOk(MkKlines(KlineMin, 105, 100, 2, 0)) }
\* Histories with a candle record that has no close field.
TruncatedKlines == { KlineOk(MkKlines(KlineMin, 105, 100, 0, 2)) }

\* ------------------------------------------------------- indicator output
Snapshot(pm, ps, lm, ls, r) ==
    [prevMacd |-> pm, prevMacdSignal |-> ps, lastMacd |-> lm, lastMacdSignal |-> ls,
     lastRsi |-> r]
NoSnapshot == Snapshot(0, 0, 0, 0, 0)

MacdVals == {-1, 0, 1}
SignalVals == {0, 1}
RsiVals == {RsiOversold - 10, RsiOversold, 50, RsiOverbought, RsiOverbought + 10}

\* Every snapshot over the value sets: all orderings of MACD against its signal
\* at both steps, and RSI below, at, between, at and above the two thresholds.
AllSnapshots ==
    { Snapshot(pm, ps, lm, ls, r) :
        pm \in MacdVals, ps \in SignalVals, lm \in MacdVals, ls \in SignalVals,
        r \in RsiVals }

\* A few snapshots for scans of several symbols: a golden cross, a dead cross,
\* the two from equality at the previous step, and no cross.
FewSnapshots ==
    { Snapshot(-1, 0, 1, 0, 50), Snapshot(1, 0, -1, 0, 50),
      Snapshot(0, 0, 1, 0, 50), Snapshot(0, 0, -1, 0, 50), Snapshot(1, 0, 1, 0, 50) }

\* -------------------------------------------------------------- scan: pure
\* strconv.ParseFloat(k[2], 64) over the records in order.  The first record
\* that has no index 2 panics (index out of range); the first whose close
\* does not parse stops the task; otherwise the closes, in response order.
RECURSIVE ParseFrom(_, _, _)
ParseFrom(klines, i, acc) ==
    IF i > Len(klines) THEN [status |-> "ok", closes |-> acc]
    ELSE IF Len(klines[i]) < CloseField + 1 THEN [status |-> "panic", closes |-> <<>>]
    ELSE IF ~klines[i][CloseField + 1].parses THEN [status |-> "parse_error", closes |-> <<>>]
    ELSE ParseFrom(klines, i + 1, Append(acc, klines[i][CloseField + 1].val))

ParseClosePrices(klines) == ParseFrom(klines, 1, <<>>)

\* The in-place reversal into chronological order.
Reverse(s) == [i \in 1..Len(s) |-> s[Len(s) + 1 - i]]

\* closePrices of symbol p once parsed and reversed.
ClosePrices(p) == Reverse(ParseClosePrices(klineResp[p].data).closes)

\* Mutation: the length check is off by one.
NotEnoughDataOffByOne(closePrices) == Len(closePrices) < KlineMin - 1

\* len(closePrices) < 26
NotEnoughData(closePrices) == Len(closePrices) < KlineMin

\* Mutations of the classifier: a cross that also counts equality at the
\* previous step, and a dead cross copied from the golden cross.
isGoldenCrossFromEqual(s) ==
    s.prevMacd <= s.prevMacdSignal /\ s.lastMacd > s.lastMacdSignal
isDeadCrossFromEqual(s) ==
    s.prevMacd >= s.prevMacdSignal /\ s.lastMacd < s.lastMacdSignal
isDeadCrossCopied(s) == s.prevMacd < s.prevMacdSignal /\ s.lastMacd > s.lastMacdSignal

\* The classifier.
isGoldenCross(s) == s.prevMacd < s.prevMacdSignal /\ s.lastMacd > s.lastMacdSignal
isRsiNotOverbought(s) == s.lastRsi < RsiOverbought
isDeadCross(s) == s.prevMacd > s.prevMacdSignal /\ s.lastMacd < s.lastMacdSignal
isRsiNotOversold(s) == s.lastRsi > RsiOversold

LongFires(s) == isGoldenCross(s) /\ isRsiNotOverbought(s)
ShortFires(s) == isDeadCross(s) /\ isRsiNotOversold(s)

\* Mutation: the guard against a zero prior price is missing.
CalculateROIUnguarded(a) == [n |-> (a.CurrentPrice - a.Price1H) * 100, d |-> a.Price1H]

\* func (a *Asset) CalculateROI() float64, as the exact quotient.
CalculateROI(a) ==
    IF a.Price1H = 0
    THEN [n |-> 0, d |-> 1]
    ELSE [n |-> (a.CurrentPrice - a.Price1H) * 100, d |-> a.Price1H]

\* ---------------------------------------------------- float64 arithmetic
\* The quotients the program computes are float64 values and the verbs %f
\* and %.2f print the exact value of the float64, rounded half to even.  The
\* printed digits are those of the exact quotient unless the exact quotient
\* lies halfway between two printable values; then they depend on which side
\* of it the float64 fell, which the operators below compute with the
\* float64's 53-bit rounding.
Abs(n) == IF n < 0 THEN -n ELSE n
Sign(n) == IF n < 0 THEN -1 ELSE IF n > 0 THEN 1 ELSE 0

\* (a, b) with a / b = (n / d) / 2^e in [1, 2), for n, d > 0.
RECURSIVE ScaleUp(_, _)
ScaleUp(a, b) == IF a < b THEN ScaleUp(2 * a, b) ELSE a
RECURSIVE ScaleDown(_, _)
ScaleDown(a, b) == IF a >= 2 * b THEN ScaleDown(a, 2 * b) ELSE b
Normalised(n, d) == LET a == ScaleUp(n, d) IN [a |-> a, b |-> ScaleDown(a, d)]

\* The 53-bit truncated significand of a / b by long division, four bits a
\* step: its low 8 bits and the remainder left.
RECURSIVE DivideBits(_, _, _, _)
DivideBits(r, b, low, steps) ==
    IF steps = 0 THEN [low |-> low, r |-> r]
    ELSE DivideBits((16 * r) % b, b, (16 * low + (16 * r) \div b) % 256, steps - 1)
Significand(f) == DivideBits(f.a - f.b, f.b, 1, 13)

\* Round to nearest, ties to even: 1 when the significand is rounded up.
RoundsUp(m, b) == IF 2 * m.r > b \/ (2 * m.r = b /\ m.low % 2 = 1) THEN 1 ELSE 0

\* Sign of float64(n / d) - n / d, for n, d > 0.
DivSide(n, d) ==
    LET f == Normalised(n, d)
        m == Significand(f)
    IN Sign(RoundsUp(m, f.b) * f.b - m.r)

\* Sign of float64(float64(n / d) * 100) - (n / d) * 100, for n, d > 0: the
\* product of the significand with 100 has 59 or 60 bits, of which the low 6
\* or 7 are rounded away.
DivTimes100Side(n, d) ==
    LET f == Normalised(n, d)
        m == Significand(f)
        c == RoundsUp(m, f.b)
        w == IF 25 * f.a >= 32 * f.b THEN 128 ELSE 64
        p == (100 * (m.low + c)) % (2 * w)
        low == p % w
        up == 2 * low > w \/ (2 * low = w /\ p \div w = 1)
        adj == IF up THEN w - low ELSE -low
    IN Sign(f.b * (adj + 100 * c) - 100 * m.r)

\* The digits printed for n / d with the given number of units per 1, for
\* n >= 0, d > 0; where is the sign of float64 minus exact value.
Digits(n, d, units, where) ==
    LET k == (n * units) \div d
        rem == (n * units) % d
    IN IF 2 * rem > d THEN k + 1
       ELSE IF 2 * rem < d THEN k
       ELSE IF where > 0 THEN k + 1
       ELSE IF where < 0 THEN k
       ELSE k + (k % 2)

\* What a verb prints for a division by zero.
NonFinite(n) == IF n > 0 THEN "+Inf" ELSE IF n < 0 THEN "-Inf" ELSE "NaN"

\* The verbs of the report line: %.2f of the ROI, which line 84 computes as
\* float64(float64(diff / prior) * 100) (the digits as hundredths, neg for a
\* printed minus sign), %.4f of the MACD, %.2f of the RSI.
FormatF2(q) ==
    IF q.d = 0
    THEN [text |-> NonFinite(q.n), neg |-> q.n < 0, hundredths |-> 0]
    ELSE LET diff == Abs(q.n) \div 100
             h == IF q.n = 0 THEN 0
                  ELSE Digits(Abs(q.n), q.d, 100, DivTimes100Side(diff, q.d))
         IN [text |-> "", neg |-> q.n < 0, hundredths |-> Sign(q.n) * h]

createAsset(symbol, closePrices, macd, rsi) ==
    [Symbol |-> symbol,
     CurrentPrice |-> closePrices[Len(closePrices)],
     Price1H |-> closePrices[Len(closePrices) - 1],
     MACD |-> macd,
     RSI |-> rsi]

AssetOf(p) == createAsset(p, ClosePrices(p), talibOut[p].lastMacd, talibOut[p].lastRsi)

\* ------------------------------------------------------- scan: primitives
\* Mutations: a lock that never blocks, and a join that waits for a first
\* result only.
muLockNeverBlocks(i) == TRUE
wgWaitFirstResult == wg < launched \/ wg = 0

\* sync.Mutex.Lock returns to task i only when no task holds the mutex.
muLockAcquires(i) == mu = 0
\* sync.WaitGroup.Wait returns only when the counter is zero.
wgWaitReturns == wg = 0

Running(m) == proc = "running" /\ mode = m

\* A goroutine returns: the deferred wg.Done() runs.
TaskReturns(i) ==
    /\ tpc' = [tpc EXCEPT ![i] = "done"]
    /\ wg' = wg - 1

\* ---------------------------------------------------- scan: AnalyzeTrends
\* pairs, err := GetTop20USDTpairsByVolume(); log.Fatalf on error.
GetTopPairs ==
    /\ Running("analysis") /\ mpc = "start"
    /\ IF topResp.err
       THEN /\ proc' = "fatal"
            /\ UNCHANGED <<mpc, pairs>>
       ELSE /\ pairs' = topResp.pairs
            /\ mpc' = "launch"
            /\ UNCHANGED proc
    /\ UNCHANGED <<mode, topResp, klineResp, talibOut, launched, wg, mu, tpc, tmp,
                   longCandidates, shortCandidates, asks, tradeVars>>

\* One iteration of the fan-out loop: wg.Add(1); go func(p) {...}(pair).
LaunchTask ==
    /\ Running("analysis") /\ mpc = "launch" /\ launched < Len(pairs)
    /\ wg' = wg + 1
    /\ launched' = launched + 1
    /\ tpc' = [tpc EXCEPT ![launched + 1] = "fetch"]
    /\ UNCHANGED <<mode, proc, topResp, klineResp, talibOut, mpc, pairs, mu, tmp,
                   longCandidates, shortCandidates, asks, tradeVars>>

\* The fan-out loop ends; AnalyzeTrends reaches wg.Wait().
LaunchEnd ==
    /\ Running("analysis") /\ mpc = "launch" /\ launched = Len(pairs)
    /\ mpc' = "wait"
    /\ UNCHANGED <<mode, proc, topResp, klineResp, talibOut, pairs, launched, wg, mu,
                   tpc, tmp, longCandidates, shortCandidates, asks, tradeVars>>

\* wg.Wait() returns.
Join ==
    /\ Running("analysis") /\ mpc = "wait" /\ wgWaitReturns
    /\ mpc' = "report_long"
    /\ UNCHANGED <<mode, proc, topResp, klineResp, talibOut, pairs, launched, wg, mu,
                   tpc, tmp, longCandidates, shortCandidates, asks, tradeVars>>

\* The lines reported for a candidate set, in its order.
AssetInfo(candidates) ==
    [k \in 1..Len(candidates) |->
        [Symbol |-> candidates[k].Symbol,
         ROI |-> FormatF2(CalculateROI(candidates[k])),
         MACD |-> candidates[k].MACD * 10000,
         RSI |-> candidates[k].RSI * 100]]

\* Mutation: AnalyzeTrends returns when the long request fails.
AfterLongAskReturns(ok) == IF ok THEN "report_short" ELSE "done"

\* if err != nil { log.Printf(...) } else { log.Printf(...) }: either way on
\* to the short report.
AfterLongAsk(ok) == "report_short"

\* if len(longCandidates) > 0 { ... AskAboutAssets(assetInfo, "buy") ... }
ReportLong ==
    /\ Running("analysis") /\ mpc = "report_long"
    /\ IF Len(longCandidates) > 0
       THEN \E ok \in BOOLEAN :
               /\ asks' = Append(asks, [side |-> "buy",
                                        assetInfo |-> AssetInfo(longCandidates), ok |-> ok])
               /\ mpc' = AfterLongAsk(ok)
       ELSE asks' = asks /\ mpc' = "report_short"
    /\ UNCHANGED <<mode, proc, topResp, klineResp, talibOut, pairs, launched, wg, mu,
                   tpc, tmp, longCandidates, shortCandidates, tradeVars>>

\* AnalyzeTrends, RunAnalysis and main return: the process exits, unless a
\* goroutine is panicking, in which case the runtime holds main back until the
\* panic has ended the process.
MainReturns == IF \E i \in Symbols : tpc[i] = "panicked" THEN proc ELSE "exited"

\* if len(shortCandidates) > 0 { ... AskAboutAssets(assetInfo, "sell") ... }; return.
ReportShort ==
    /\ Running("analysis") /\ mpc = "report_short"
    /\ IF Len(shortCandidates) > 0
       THEN \E ok \in BOOLEAN :
               asks' = Append(asks, [side |-> "sell", assetInfo |-> AssetInfo(shortCandidates),
                                     ok |-> ok])
       ELSE asks' = asks
    /\ mpc' = "done"
    /\ proc' = MainReturns
    /\ UNCHANGED <<mode, topResp, klineResp, talibOut, pairs, launched, wg, mu,
                   tpc, tmp, longCandidates, shortCandidates, tradeVars>>

\* ------------------------------------------- scan: the analysis goroutine
\* klines, err := GetKlines(p, 60, 100); on error log and return.
TaskGetKlines(i) ==
    /\ Running("analysis") /\ tpc[i] = "fetch"
    /\ IF klineResp[pairs[i]].err
       THEN TaskReturns(i)
       ELSE tpc' = [tpc EXCEPT ![i] = "parse"] /\ UNCHANGED wg
    /\ UNCHANGED <<mode, proc, topResp, klineResp, talibOut, mpc, pairs, launched, mu,
                   tmp, longCandidates, shortCandidates, asks, tradeVars>>

\* The parse loop, the reversal and the length check.  k[2] on a record of
\* fewer than three fields panics: the deferred wg.Done() runs while the
\* goroutine unwinds, and the runtime then ends the process (PanicExit).
TaskParse(i) ==
    /\ Running("analysis") /\ tpc[i] = "parse"
    /\ LET r == ParseClosePrices(klineResp[pairs[i]].data) IN
       IF r.status = "panic"
       THEN /\ tpc' = [tpc EXCEPT ![i] = "panicked"]
            /\ wg' = wg - 1
            /\ UNCHANGED proc
       ELSE IF r.status = "parse_error" \/ NotEnoughData(Reverse(r.closes))
       THEN TaskReturns(i) /\ UNCHANGED proc
       ELSE tpc' = [tpc EXCEPT ![i] = "indicators"] /\ UNCHANGED <<proc, wg>>
    /\ UNCHANGED <<mode, topResp, klineResp, talibOut, mpc, pairs, launched, mu,
                   tmp, longCandidates, shortCandidates, asks, tradeVars>>

\* talib.Macd, talib.Rsi, and the long test.
TaskIndicators(i) ==
    /\ Running("analysis") /\ tpc[i] = "indicators"
    /\ tpc' = [tpc EXCEPT ![i] = IF LongFires(talibOut[pairs[i]])
                                  THEN "long_lock" ELSE "short_check"]
    /\ UNCHANGED <<mode, proc, topResp, klineResp, talibOut, mpc, pairs, launched, wg,
                   mu, tmp, longCandidates, shortCandidates, asks, tradeVars>>

\* mu.Lock() before the long append.
TaskLongLock(i) ==
    /\ Running("analysis") /\ tpc[i] = "long_lock" /\ muLockAcquires(i)
    /\ mu' = i
    /\ tpc' = [tpc EXCEPT ![i] = "long_load"]
    /\ UNCHANGED <<mode, proc, topResp, klineResp, talibOut, mpc, pairs, launched, wg,
                   tmp, longCandidates, shortCandidates, asks, tradeVars>>

\* append(longCandidates, asset): the slice is read ...
TaskLongLoad(i) ==
    /\ Running("analysis") /\ tpc[i] = "long_load"
    /\ tmp' = [tmp EXCEPT ![i] = longCandidates]
    /\ tpc' = [tpc EXCEPT ![i] = "long_store"]
    /\ UNCHANGED <<mode, proc, topResp, klineResp, talibOut, mpc, pairs, launched, wg,
                   mu, longCandidates, shortCandidates, asks, tradeVars>>

\* ... and the extended slice is assigned to longCandidates.
TaskLongStore(i) ==
    /\ Running("analysis") /\ tpc[i] = "long_store"
    /\ longCandidates' = Append(tmp[i], AssetOf(pairs[i]))
    /\ tmp' = [tmp EXCEPT ![i] = <<>>]
    /\ tpc' = [tpc EXCEPT ![i] = "long_unlock"]
    /\ UNCHANGED <<mode, proc, topResp, klineResp, talibOut, mpc, pairs, launched, wg,
                   mu, shortCandidates, asks, tradeVars>>

\* mu.Unlock() after the long append.
TaskLongUnlock(i) ==
    /\ Running("analysis") /\ tpc[i] = "long_unlock"
    /\ mu' = 0
    /\ tpc' = [tpc EXCEPT ![i] = "short_check"]
    /\ UNCHANGED <<mode, proc, topResp, klineResp, talibOut, mpc, pairs, launched, wg,
                   tmp, longCandidates, shortCandidates, asks, tradeVars>>

\* The short test; the goroutine returns when it does not fire.
TaskShortCheck(i) ==
    /\ Running("analysis") /\ tpc[i] = "short_check"
    /\ IF ShortFires(talibOut[pairs[i]])
       THEN tpc' = [tpc EXCEPT ![i] = "short_lock"] /\ UNCHANGED wg
       ELSE TaskReturns(i)
    /\ UNCHANGED <<mode, proc, topResp, klineResp, talibOut, mpc, pairs, launched, mu,
                   tmp, longCandidates, shortCandidates, asks, tradeVars>>

\* mu.Lock() before the short append.
TaskShortLock(i) ==
    /\ Running("analysis") /\ tpc[i] = "short_lock" /\ muLockAcquires(i)
    /\ mu' = i
    /\ tpc' = [tpc EXCEPT ![i] = "short_load"]
    /\ UNCHANGED <<mode, proc, topResp, klineResp, talibOut, mpc, pairs, launched, wg,
                   tmp, longCandidates, shortCandidates, asks, tradeVars>>

TaskShortLoad(i) ==
    /\ Running("analysis") /\ tpc[i] = "short_load"
    /\ tmp' = [tmp EXCEPT ![i] = shortCandidates]
    /\ tpc' = [tpc EXCEPT ![i] = "short_store"]
    /\ UNCHANGED <<mode, proc, topResp, klineResp, talibOut, mpc, pairs, launched, wg,
                   mu, longCandidates, shortCandidates, asks, tradeVars>>

TaskShortStore(i) ==
    /\ Running("analysis") /\ tpc[i] = "short_store"
    /\ shortCandidates' = Append(tmp[i], AssetOf(pairs[i]))
    /\ tmp' = [tmp EXCEPT ![i] = <<>>]
    /\ tpc' = [tpc EXCEPT ![i] = "short_unlock"]
    /\ UNCHANGED <<mode, proc, topResp, klineResp, talibOut, mpc, pairs, launched, wg,
                   mu, longCandidates, asks, tradeVars>>

\* mu.Unlock() after the short append.
TaskShortUnlock(i) ==
    /\ Running("analysis") /\ tpc[i] = "short_unlock"
    /\ mu' = 0
    /\ tpc' = [tpc EXCEPT ![i] = "return"]
    /\ UNCHANGED <<mode, proc, topResp, klineResp, talibOut, mpc, pairs, launched, wg,
                   tmp, longCandidates, shortCandidates, asks, tradeVars>>

\* The end of the goroutine's body.
TaskEnd(i) ==
    /\ Running("analysis") /\ tpc[i] = "return"
    /\ TaskReturns(i)
    /\ UNCHANGED <<mode, proc, topResp, klineResp, talibOut, mpc, pairs, launched, mu,
                   tmp, longCandidates, shortCandidates, asks, tradeVars>>

\* The panic of goroutine i was not recovered: the runtime prints it and
\* exits the process with status 2, whatever the other goroutines are doing.
PanicExit(i) ==
    /\ Running("analysis") /\ tpc[i] = "panicked"
    /\ proc' = "panicked"
    /\ UNCHANGED <<mode, topResp, klineResp, talibOut, mpc, pairs, launched, wg, mu,
                   tpc, tmp, longCandidates, shortCandidates, asks, tradeVars>>

\* ------------------------------------------------------------ trade: pure
Sides == {"buy", "sell", "hold"}
Amounts == {10, 1000}
Prices == {0, 99, 100, 101}

\* Answers of GetCurrentPrice: an error, or a price (0 when the response
\* carries no price field).
PriceErr == [err |-> TRUE, price |-> 0]
PriceOk(p) == [err |-> FALSE, price |-> p]
PriceResponses == {PriceErr} \cup {PriceOk(p) : p \in Prices}

\* size := amountUSD / currentPrice, kept as the exact quotient.
Quotient(n, d) == [n |-> n, d |-> d]
NoSize == Quotient(0, 1)

\* fmt.Sprintf("%f", size): the float64 quotient with six decimals (the digits
\* as millionths, neg for a printed minus sign); "+Inf", "-Inf" or "NaN" when
\* the divisor was 0.
FormatF(q) ==
    IF q.d = 0
    THEN [text |-> NonFinite(q.n), neg |-> q.n < 0, micro |-> 0]
    ELSE LET neg == (q.n < 0) # (q.d < 0)
             u == IF q.n = 0 THEN 0
                  ELSE Digits(Abs(q.n), Abs(q.d), 1000000, DivSide(Abs(q.n), Abs(q.d)))
         IN [text |-> "", neg |-> neg, micro |-> IF neg THEN -u ELSE u]

\* Mutation: only an empty side is rejected.
InvalidSideEmptyOnly(sd) == sd = ""

\* side != "buy" && side != "sell"
InvalidSide(sd) == sd # "buy" /\ sd # "sell"

\* Mutation: the two take-profit factors are exchanged.
TargetPriceSwapped(sd, entryPrice) ==
    IF sd = "buy" THEN entryPrice * TakeProfitShort ELSE entryPrice * TakeProfitLong

\* targetPrice, in hundredths.
TargetPrice(sd, entryPrice) ==
    IF sd = "buy" THEN entryPrice * TakeProfitLong ELSE entryPrice * TakeProfitShort

\* Mutation: the take-profit test looks the wrong way.
TargetReachedReversed(sd, latestPrice, target) ==
    \/ sd = "buy" /\ latestPrice * 100 <= target
    \/ sd = "sell" /\ latestPrice * 100 >= target

\* (side == "buy" && latestPrice >= targetPrice) || (side == "sell" && latestPrice <= targetPrice)
TargetReached(sd, latestPrice, target) ==
    \/ sd = "buy" /\ latestPrice * 100 >= target
    \/ sd = "sell" /\ latestPrice * 100 <= target

CloseSide(sd) == IF sd = "sell" THEN "buy" ELSE "sell"

PriceCall(r) == [op |-> "price", side |-> "", size |-> FormatF(NoSize), ok |-> ~r.err,
                 price |-> r.price]
OrderCall(sd, sz, ok) == [op |-> "order", side |-> sd, size |-> sz, ok |-> ok, price |-> 0]

\* Mutations of ExecuteTrade: the dry run is not honoured; a failed entry
\* order is retried; a failed poll gives up.
DryRunIgnored(ex) == FALSE
AfterEntryOrderRetry(ok) == IF ok THEN "sleep" ELSE "entry_order"
AfterPollGivesUp(sd, r, target) ==
    IF r.err THEN "aborted"
    ELSE IF TargetReached(sd, r.price, target) THEN "closing"
    ELSE "sleep"

\* Mutations of the exit order's outcome: a failed exit order is re-attempted
\* at once; the loop goes on after a successful exit order; a failed exit
\* order ends the trade.
AfterExitOrderRetriesAtOnce(ok) == IF ok THEN "closed" ELSE "closing"
AfterExitOrderKeepsPolling(ok) == "sleep"
AfterExitOrderGivesUp(ok) == IF ok THEN "closed" ELSE "aborted"

\* if !execute { ... return }
DryRun(ex) == ~ex

\* Where ExecuteTrade goes after the entry price lookup, the entry order, a
\* poll of the monitor loop and the exit order.
AfterEntryPrice(r) == IF r.err THEN "aborted" ELSE "entry_order"
AfterEntryOrder(ok) == IF ok THEN "sleep" ELSE "aborted"
AfterPoll(sd, r, target) ==
    IF r.err THEN "sleep"
    ELSE IF TargetReached(sd, r.price, target) THEN "closing"
    ELSE "sleep"
AfterExitOrder(ok) == IF ok THEN "closed" ELSE "sleep"

\* ExecuteTrade has returned: RunTrade and main return, the process exits.
Returned(x) == x \in {"aborted", "closed"}
ProcAfter(x) == IF Returned(x) THEN "exited" ELSE proc

\* ----------------------------------------------------- trade: ExecuteTrade
\* The execute flag and the side are checked, in this order.
TradeValidate ==
    /\ Running("trade") /\ xpc = "start"
    /\ xpc' = IF DryRun(execute) THEN "aborted"
              ELSE IF InvalidSide(side) THEN "aborted"
              ELSE "entry_price"
    /\ proc' = ProcAfter(xpc')
    /\ UNCHANGED <<mode, scanVars, side, execute, amountUSD, currentPrice, size,
                   targetPrice, polls, gwCalls>>

\* currentPrice, err := GetCurrentPrice(symbol); size := amountUSD / currentPrice.
TradeEntryPrice ==
    /\ Running("trade") /\ xpc = "entry_price"
    /\ \E r \in PriceResponses :
          /\ gwCalls' = Append(gwCalls, PriceCall(r))
          /\ xpc' = AfterEntryPrice(r)
          /\ IF r.err
             THEN UNCHANGED <<currentPrice, size>>
             ELSE /\ currentPrice' = r.price
                  /\ size' = Quotient(amountUSD, r.price)
    /\ proc' = ProcAfter(xpc')
    /\ UNCHANGED <<mode, scanVars, side, execute, amountUSD, targetPrice, polls>>

\* CreateOrder(symbol, side, "market", sizeStr); then the target price.
TradeEntryOrder ==
    /\ Running("trade") /\ xpc = "entry_order"
    /\ \E ok \in BOOLEAN :
          /\ gwCalls' = Append(gwCalls, OrderCall(side, FormatF(size), ok))
          /\ xpc' = AfterEntryOrder(ok)
          /\ targetPrice' = IF ok THEN TargetPrice(side, currentPrice) ELSE targetPrice
    /\ proc' = ProcAfter(xpc')
    /\ UNCHANGED <<mode, scanVars, side, execute, amountUSD, currentPrice, size, polls>>

\* time.Sleep(30 * time.Second) at the head of the monitor loop.
TradeSleep ==
    /\ Running("trade") /\ xpc = "sleep" /\ polls < MaxPolls
    /\ polls' = polls + 1
    /\ xpc' = "poll"
    /\ UNCHANGED <<mode, proc, scanVars, side, execute, amountUSD, currentPrice, size,
                   targetPrice, gwCalls>>

\* latestPrice, err := GetCurrentPrice(symbol); on error continue; then the
\* take-profit test.
TradePoll ==
    /\ Running("trade") /\ xpc = "poll"
    /\ \E r \in PriceResponses :
          /\ gwCalls' = Append(gwCalls, PriceCall(r))
          /\ xpc' = AfterPoll(side, r, targetPrice)
    /\ proc' = ProcAfter(xpc')
    /\ UNCHANGED <<mode, scanVars, side, execute, amountUSD, currentPrice, size,
                   targetPrice, polls>>

\* CreateOrder(symbol, closeSide, "market", closeSizeStr); on error continue,
\* else break and return.
TradeExitOrder ==
    /\ Running("trade") /\ xpc = "closing"
    /\ \E ok \in BOOLEAN :
          /\ gwCalls' = Append(gwCalls, OrderCall(CloseSide(side), FormatF(size), ok))
          /\ xpc' = AfterExitOrder(ok)
    /\ proc' = ProcAfter(xpc')
    /\ UNCHANGED <<mode, scanVars, side, execute, amountUSD, currentPrice, size,
                   targetPrice, polls>>

\* ------------------------------------------------------------------- Init
TopErr == [err |-> TRUE, pairs |-> <<>>]
TopOk(n) == [err |-> FALSE, pairs |-> [i \in 1..n |-> i]]

Scenario(k, t) == [kline |-> k, talib |-> t]
NoScenario == Scenario(KlineErr, NoSnapshot)

\* What the gateway and talib may answer for one symbol.
FailingScenarios ==
    { Scenario(k, NoSnapshot) : k \in FailingKlines \cup TruncatedKlines }
RichScenarios ==
    { Scenario(k, t) : k \in GoodKlines, t \in AllSnapshots } \cup FailingScenarios
FewScenarios ==
    { Scenario(KlineOk(MkKlines(KlineMin, 105, 100, 0, 0)), t) : t \in FewSnapshots }
        \cup FailingScenarios

\* The markets scanned: a universe of one symbol with every scenario, and
\* universes of several symbols with the few.
Markets(n) ==
    IF n = 0 THEN { [p \in Symbols |-> NoScenario] }
    ELSE IF n = 1 THEN { [p \in Symbols |-> IF p = 1 THEN sc ELSE NoScenario] :
                           sc \in RichScenarios }
    ELSE { m \in [Symbols -> FewScenarios] : \A p \in Symbols : p > n => m[p] = NoScenario }

InitScanIdle ==
    /\ mpc = "start" /\ pairs = <<>> /\ launched = 0 /\ wg = 0 /\ mu = 0
    /\ tpc = [i \in Symbols |-> "idle"]
    /\ tmp = [i \in Symbols |-> <<>>]
    /\ longCandidates = <<>> /\ shortCandidates = <<>> /\ asks = <<>>

InitTradeIdle ==
    /\ xpc = "start" /\ currentPrice = 0 /\ size = NoSize /\ targetPrice = 0
    /\ polls = 0 /\ gwCalls = <<>>

\* main: the flags choose the mode and the trade's arguments.
Init ==
    /\ proc = "running"
    /\ InitScanIdle
    /\ InitTradeIdle
    /\ \/ /\ mode = "analysis"
          /\ side = "buy" /\ execute = FALSE /\ amountUSD = 10
          /\ \/ /\ topResp = TopErr
                /\ klineResp = [p \in Symbols |-> KlineErr]
                /\ talibOut = [p \in Symbols |-> NoSnapshot]
             \/ \E n \in 0..NumSymbols : \E m \in Markets(n) :
                   /\ topResp = TopOk(n)
                   /\ klineResp = [p \in Symbols |-> m[p].kline]
                   /\ talibOut = [p \in Symbols |-> m[p].talib]
       \/ /\ mode = "trade"
          /\ side \in Sides /\ execute \in BOOLEAN /\ amountUSD \in Amounts
          /\ topResp = TopErr
          /\ klineResp = [p \in Symbols |-> KlineErr]
          /\ talibOut = [p \in Symbols |-> NoSnapshot]

Next ==
    \/ GetTopPairs
    \/ LaunchTask
    \/ LaunchEnd
    \/ Join
    \/ ReportLong
    \/ ReportShort
    \/ \E i \in Symbols : TaskGetKlines(i)
    \/ \E i \in Symbols : TaskParse(i)
    \/ \E i \in Symbols : TaskIndicators(i)
    \/ \E i \in Symbols : TaskLongLock(i)
    \/ \E i \in Symbols : TaskLongLoad(i)
    \/ \E i \in Symbols : TaskLongStore(i)
    \/ \E i \in Symbols : TaskLongUnlock(i)
    \/ \E i \in Symbols : TaskShortCheck(i)
    \/ \E i \in Symbols : TaskShortLock(i)
    \/ \E i \in Symbols : TaskShortLoad(i)
    \/ \E i \in Symbols : TaskShortStore(i)
    \/ \E i \in Symbols : TaskShortUnlock(i)
    \/ \E i \in Symbols : TaskEnd(i)
    \/ \E i \in Symbols : PanicExit(i)
    \/ TradeValidate
    \/ TradeEntryPrice
    \/ TradeEntryOrder
    \/ TradeSleep
    \/ TradePoll
    \/ TradeExitOrder

Spec == Init /\ [][Next]_vars

\* The monitor loop is one sequential thread: the sleep returns after its
\* interval and each gateway call returns within the HTTP client's timeout, so
\* a step of ExecuteTrade that is possible is eventually taken.
SpecLive ==
    /\ Spec
    /\ WF_vars(TradeSleep) /\ WF_vars(TradePoll) /\ WF_vars(TradeExitOrder)

\* The trade command alone (main with -trade), under the same fairness.
InitTrade == Init /\ mode = "trade"
NextTrade ==
    \/ TradeValidate
    \/ TradeEntryPrice
    \/ TradeEntryOrder
    \/ TradeSleep
    \/ TradePoll
    \/ TradeExitOrder
SpecTradeLive ==
    /\ InitTrade /\ [][NextTrade]_vars
    /\ WF_vars(TradeSleep) /\ WF_vars(TradePoll) /\ WF_vars(TradeExitOrder)

\* ================================================================ claims
\* AnalyzeTrends is past wg.Wait().
PostJoin == mpc \in {"report_long", "report_short", "done"}
Tasks == 1..Len(pairs)
\* A goroutine has terminated when it returned or panicked (its deferred
\* wg.Done() has run in both cases).
Terminated(i) == tpc[i] \in {"done", "panicked"}
AllTasksDone == launched = Len(pairs) /\ \A i \in Tasks : Terminated(i)
Universe == { pairs[i] : i \in Tasks }
SymbolsIn(candidates) == { candidates[k].Symbol : k \in 1..Len(candidates) }

\* The symbol's history was fetched, every close parses and there are at
\* least 26 samples.
HistoryOk(p) ==
    LET d == klineResp[p].data IN
    /\ ~klineResp[p].err
    /\ Len(d) >= KlineMin
    /\ \A k \in 1..Len(d) : Len(d[k]) > CloseField /\ d[k][CloseField + 1].parses

\* The symbol's task fails locally: lookup error, unparseable close, or a
\* history of fewer than 26 samples (every record having a close field).
FailsLocally(p) ==
    LET d == klineResp[p].data IN
    \/ klineResp[p].err
    \/ /\ \A k \in 1..Len(d) : Len(d[k]) > CloseField
       /\ \/ \E k \in 1..Len(d) : ~d[k][CloseField + 1].parses
          \/ Len(d) < KlineMin

\* C1: whenever AnalyzeTrends is at a post-join step (reading the candidate
\* sets for reporting, or calling the summarizer), and whenever a summary has
\* been requested, every task launched for the scan has terminated and every
\* symbol of the universe had its task launched.
C1_JoinBarrier == (PostJoin \/ asks # <<>>) => AllTasksDone

C1_Witness ==
    /\ mpc = "report_long" /\ Len(pairs) >= 2 /\ Len(longCandidates) > 0
    /\ \E i \in Tasks : klineResp[pairs[i]].err

\* C2: after the join the long-candidate set holds exactly one entry for each
\* symbol whose snapshot satisfies the long rule, and no other entry: no
\* append is lost or duplicated, whatever the interleaving.
LongSymbols == { p \in Universe : HistoryOk(p) /\ LongFires(talibOut[p]) }
C2_LongSetExact ==
    PostJoin => /\ Len(longCandidates) = Cardinality(LongSymbols)
                /\ SymbolsIn(longCandidates) = LongSymbols

C2_Witness == mpc = "report_long" /\ Cardinality(LongSymbols) >= 2

\* The instrument of task i is in the set only if the rule holds, and once
\* the task has run to completion it is in the set iff the rule holds.
ProducesIff(i, candidates, rule) ==
    LET in == pairs[i] \in SymbolsIn(candidates) IN
    /\ in => rule
    /\ tpc[i] = "done" => (in <=> rule)

\* C3 (as stated): an instrument with at least 26 samples becomes a long
\* candidate iff prevMACD <= prevSignal, curMACD > curSignal and curRSI < 70.
C3_Original ==
    \A i \in Tasks : HistoryOk(pairs[i]) =>
        LET s == talibOut[pairs[i]] IN
        ProducesIff(i, longCandidates,
            s.prevMacd <= s.prevMacdSignal /\ s.lastMacd > s.lastMacdSignal
                /\ s.lastRsi < RsiOverbought)

\* C3 (amended): an instrument with at least 26 samples is never a long
\* candidate unless prevMACD < prevSignal (strictly), curMACD > curSignal and
\* curRSI < 70, and once its task has run to completion it is a long candidate
\* iff these hold; a snapshot with prevMACD = prevSignal yields no long
\* candidate.
C3_LongIffStrictCross ==
    \A i \in Tasks : HistoryOk(pairs[i]) =>
        LET s == talibOut[pairs[i]] IN
        ProducesIff(i, longCandidates,
            s.prevMacd < s.prevMacdSignal /\ s.lastMacd > s.lastMacdSignal
                /\ s.lastRsi < RsiOverbought)

C3_Witness ==
    /\ mpc = "done" /\ Len(pairs) >= 2
    /\ \E i \in Tasks : pairs[i] \in SymbolsIn(longCandidates)
    /\ \E i \in Tasks :
          LET s == talibOut[pairs[i]] IN
          /\ HistoryOk(pairs[i])
          /\ s.prevMacd = s.prevMacdSignal /\ s.lastMacd > s.lastMacdSignal
          /\ s.lastRsi < RsiOverbought
          /\ pairs[i] \notin SymbolsIn(longCandidates)

\* C4 (as stated): an instrument with at least 26 samples becomes a short
\* candidate iff prevMACD >= prevSignal, curMACD < curSignal and curRSI > 30.
C4_Original ==
    \A i \in Tasks : HistoryOk(pairs[i]) =>
        LET s == talibOut[pairs[i]] IN
        ProducesIff(i, shortCandidates,
            s.prevMacd >= s.prevMacdSignal /\ s.lastMacd < s.lastMacdSignal
                /\ s.lastRsi > RsiOversold)

\* C4 (amended): an instrument with at least 26 samples is never a short
\* candidate unless prevMACD > prevSignal (strictly), curMACD < curSignal and
\* curRSI > 30, and once its task has run to completion it is a short
\* candidate iff these hold; a snapshot with prevMACD = prevSignal yields no
\* short candidate.
C4_ShortIffStrictCross ==
    \A i \in Tasks : HistoryOk(pairs[i]) =>
        LET s == talibOut[pairs[i]] IN
        ProducesIff(i, shortCandidates,
            s.prevMacd > s.prevMacdSignal /\ s.lastMacd < s.lastMacdSignal
                /\ s.lastRsi > RsiOversold)

C4_Witness ==
    /\ mpc = "done" /\ Len(pairs) >= 2
    /\ \E i \in Tasks : pairs[i] \in SymbolsIn(shortCandidates)
    /\ \E i \in Tasks :
          LET s == talibOut[pairs[i]] IN
          /\ HistoryOk(pairs[i])
          /\ s.prevMacd = s.prevMacdSignal /\ s.lastMacd < s.lastMacdSignal
          /\ s.lastRsi > RsiOversold
          /\ pairs[i] \notin SymbolsIn(shortCandidates)

\* C5: in every state of a scan no symbol is in both the long-candidate set
\* and the short-candidate set, and no task is on the way to a short append
\* after a long append.
C5_LongShortDisjoint ==
    /\ SymbolsIn(longCandidates) \cap SymbolsIn(shortCandidates) = {}
    /\ \A i \in Tasks :
          tpc[i] \in {"short_lock", "short_load", "short_store", "short_unlock"}
              => pairs[i] \notin SymbolsIn(longCandidates)

C5_Witness == mpc = "done" /\ Len(longCandidates) > 0 /\ Len(shortCandidates) > 0

\* C6: a task that hits a history-lookup error, an unparseable close or a
\* history of fewer than 26 samples never computes indicators and never
\* appends a candidate; it blocks nothing (it never holds the mutex, and the
\* WaitGroup counts exactly the launched tasks that have not returned, so its
\* return is counted by the join); and after the join the two sets hold
\* exactly the candidates of the other symbols, as computed from those
\* symbols' own data.
ExpectedLong(syms) == { AssetOf(p) : p \in { q \in syms : LongFires(talibOut[q]) } }
ExpectedShort(syms) == { AssetOf(p) : p \in { q \in syms : ShortFires(talibOut[q]) } }
AssetsIn(candidates) == { candidates[k] : k \in 1..Len(candidates) }
Others == { p \in Universe : ~FailsLocally(p) }
C6_LocalFailureStaysLocal ==
    /\ \A i \in Tasks : FailsLocally(pairs[i]) =>
          /\ tpc[i] \in {"idle", "fetch", "parse", "done"}
          /\ pairs[i] \notin SymbolsIn(longCandidates) \cup SymbolsIn(shortCandidates)
    /\ wg = Cardinality({ i \in 1..launched : ~Terminated(i) })
    /\ \A i \in Tasks : mu = i => ~FailsLocally(pairs[i])
    /\ PostJoin =>
          /\ AssetsIn(longCandidates) = ExpectedLong(Others)
          /\ Len(longCandidates) = Cardinality(ExpectedLong(Others))
          /\ AssetsIn(shortCandidates) = ExpectedShort(Others)
          /\ Len(shortCandidates) = Cardinality(ExpectedShort(Others))

C6_Witness ==
    /\ mpc = "done" /\ Len(longCandidates) > 0
    /\ \E i \in Tasks : FailsLocally(pairs[i]) /\ ~klineResp[pairs[i]].err

\* C7: with the execute flag unset, ExecuteTrade makes no gateway call (no
\* price lookup, no order) and ends aborted, for any side and amount.
C7_DryRunMakesNoCall ==
    (mode = "trade" /\ ~execute) => (gwCalls = <<>> /\ xpc \in {"start", "aborted"})

C7_Witness ==
    mode = "trade" /\ ~execute /\ side = "buy" /\ xpc = "aborted" /\ proc = "exited"

\* C8: with a side other than "buy" and "sell", ExecuteTrade makes no price
\* lookup and places no order and ends aborted, for any execute flag.
C8_InvalidSideMakesNoCall ==
    (mode = "trade" /\ side \notin {"buy", "sell"})
        => (gwCalls = <<>> /\ xpc \in {"start", "aborted"})

C8_Witness ==
    mode = "trade" /\ execute /\ side = "hold" /\ xpc = "aborted" /\ proc = "exited"

\* C9: the first gateway call is the entry price lookup and the second the
\* entry order; if either fails it is the last call of the run, ExecuteTrade
\* is aborted and the monitor loop was never entered; and a run places at
\* most one order on the entry side.
EntryOrders == { k \in 1..Len(gwCalls) : gwCalls[k].op = "order" /\ gwCalls[k].side = side }
C9_EntryFailureAborts ==
    /\ Len(gwCalls) >= 1 => gwCalls[1].op = "price"
    /\ Len(gwCalls) >= 2 => 2 \in EntryOrders
    /\ \A k \in {1, 2} :
          (Len(gwCalls) >= k /\ ~gwCalls[k].ok)
              => (Len(gwCalls) = k /\ xpc = "aborted" /\ polls = 0)
    /\ Cardinality(EntryOrders) <= 1

C9_Witness ==
    /\ xpc = "aborted" /\ proc = "exited"
    /\ Len(gwCalls) = 2 /\ gwCalls[2].op = "order" /\ ~gwCalls[2].ok

\* C10: a failed price lookup in the monitor loop appends that one call and
\* no order, and leaves ExecuteTrade running at the head of the loop; while
\* the last call is a failed lookup of the loop the position is open; and
\* from there the next poll is eventually performed.
LastCall == gwCalls[Len(gwCalls)]
AfterFailedPoll == Len(gwCalls) >= 3 /\ LastCall.op = "price" /\ ~LastCall.ok
PollFails ==
    /\ xpc = "poll" /\ Len(gwCalls') > Len(gwCalls)
    /\ ~gwCalls'[Len(gwCalls')].ok
C10_FailedPollKeepsOpen ==
    /\ [][PollFails =>
            /\ xpc' = "sleep" /\ proc' = "running"
            /\ gwCalls' = Append(gwCalls, PriceCall(PriceErr))]_vars
    /\ [](AfterFailedPoll => (xpc \in {"sleep", "poll"} /\ proc = "running"))
    /\ []((AfterFailedPoll /\ xpc = "sleep" /\ polls < MaxPolls) => <>(xpc = "poll"))

C10_Witness ==
    /\ xpc = "poll" /\ Len(gwCalls) = 4
    /\ \A k \in {3, 4} : gwCalls[k].op = "price" /\ ~gwCalls[k].ok

\* The orders placed on the closing side, and what "crosses the target" means
\* for the entry price of the run (the first gateway call's price).
ExitOrders ==
    { k \in 1..Len(gwCalls) : gwCalls[k].op = "order" /\ gwCalls[k].side # side }
EntryPrice == gwCalls[1].price
Crosses(price) ==
    \/ side = "buy" /\ price * 100 >= EntryPrice * 101
    \/ side = "sell" /\ price * 100 <= EntryPrice * 99
IsCrossingPoll(k) ==
    k > 2 /\ gwCalls[k].op = "price" /\ gwCalls[k].ok /\ Crosses(gwCalls[k].price)

\* C11: a failed exit order leaves ExecuteTrade running at the head of the
\* loop (the sleep); from there the only step is the sleep of a new interval
\* followed by a poll; the call after a failed exit order is a price lookup,
\* and every exit order (so every later attempt) directly follows a successful
\* lookup whose price crosses the target.
ExitOrderFails ==
    /\ xpc = "closing" /\ Len(gwCalls') > Len(gwCalls)
    /\ ~gwCalls'[Len(gwCalls')].ok
C11_FailedExitResumesMonitoring ==
    /\ [][ExitOrderFails => (xpc' = "sleep" /\ proc' = "running")]_vars
    /\ [][xpc = "sleep" => (xpc' = "poll" /\ polls' = polls + 1 /\ gwCalls' = gwCalls)]_vars
    /\ [](\A k \in ExitOrders :
            /\ (~gwCalls[k].ok /\ k < Len(gwCalls)) => gwCalls[k + 1].op = "price"
            /\ IsCrossingPoll(k - 1))

C11_Witness ==
    /\ xpc = "closing"
    /\ \E k \in ExitOrders : ~gwCalls[k].ok /\ k + 1 = Len(gwCalls)

\* C12: over a run of ExecuteTrade at most one exit order succeeds; every
\* exit order comes after the successful entry order (the second gateway
\* call); the successful exit order is the last gateway call of the run, with
\* the controller closed and the process exited; and nothing changes once the
\* controller is closed.
SuccessfulExits == { k \in ExitOrders : gwCalls[k].ok }
C12_ClosedIsTerminal ==
    /\ [](/\ Cardinality(SuccessfulExits) <= 1
          /\ Cardinality(EntryOrders) <= 1
          /\ \A k \in ExitOrders :
                /\ k > 2
                /\ gwCalls[2].op = "order" /\ gwCalls[2].side = side /\ gwCalls[2].ok
          /\ \A k \in SuccessfulExits :
                k = Len(gwCalls) /\ xpc = "closed" /\ proc = "exited"
          /\ xpc = "closed" => SuccessfulExits # {})
    /\ [][xpc = "closed" => UNCHANGED vars]_vars

C12_Witness ==
    /\ xpc = "closed"
    /\ Cardinality(ExitOrders) >= 2
    /\ SuccessfulExits = {Len(gwCalls)}

\* The position is open: the entry order succeeded.
PositionOpen == xpc \in {"sleep", "poll", "closing", "closed"}
Monitored == xpc \in {"sleep", "poll", "closing"}
Orders == { k \in 1..Len(gwCalls) : gwCalls[k].op = "order" }

\* C13: with entry price P (the price of the first lookup) and notional A, the
\* size is the quotient A / P and every order, entry and exit, carries that
\* quotient printed with six decimals (within half a millionth of A / P); once the position is open the target is
\* P * 1.01 for "buy" and P * 0.99 for "sell" (in hundredths: P * 101,
\* P * 99); buy, P = 100, A = 1000 gives size 10.000000 and target 101.00,
\* sell, P = 100 gives target 99.00; and neither the size nor the target
\* changes while the position is monitored.
C13_SizeAndTarget ==
    /\ [](/\ Len(gwCalls) >= 2 =>
                /\ size = [n |-> amountUSD, d |-> EntryPrice]
                /\ \A k \in Orders :
                      IF EntryPrice = 0
                      THEN gwCalls[k].size.text = "+Inf"
                      ELSE /\ gwCalls[k].size.text = ""
                           /\ 2 * Abs(gwCalls[k].size.micro * EntryPrice
                                          - amountUSD * 1000000) <= EntryPrice
          /\ PositionOpen =>
                /\ side = "buy" => targetPrice = EntryPrice * 101
                /\ side = "sell" => targetPrice = EntryPrice * 99
                /\ (side = "buy" /\ EntryPrice = 100 /\ amountUSD = 1000) =>
                      (gwCalls[2].size.micro = 10 * 1000000 /\ targetPrice = 101 * 100)
                /\ (side = "sell" /\ EntryPrice = 100) => targetPrice = 99 * 100)
    /\ [][Monitored => (size' = size /\ targetPrice' = targetPrice)]_vars

C13_Witness ==
    /\ xpc = "closed" /\ polls >= 2
    /\ side = "buy" /\ EntryPrice = 100 /\ amountUSD = 1000
    /\ Cardinality(Orders) >= 3

\* The successful polls of the monitor loop (lookups after the entry order).
SuccessfulPolls == { k \in 3..Len(gwCalls) : gwCalls[k].op = "price" /\ gwCalls[k].ok }

\* C17: every exit order directly follows, in the same iteration, a
\* successful lookup whose price is >= the target for "buy" and <= the target
\* for "sell"; a successful poll whose price does not cross places no order:
\* the controller is back at the sleep (or past it, about to poll again),
\* still running, and the next gateway call, if any, is again a lookup; a successful poll that does cross leads
\* to the exit order.
PollStep == xpc = "poll" /\ Len(gwCalls') > Len(gwCalls)
C17_ExitOnlyOnCrossing ==
    /\ [](/\ \A k \in ExitOrders :
                /\ k - 1 \in SuccessfulPolls
                /\ side = "buy" => gwCalls[k - 1].price * 100 >= targetPrice
                /\ side = "sell" => gwCalls[k - 1].price * 100 <= targetPrice
          /\ \A k \in SuccessfulPolls :
                IF Crosses(gwCalls[k].price)
                THEN IF k = Len(gwCalls) THEN xpc = "closing" ELSE k + 1 \in ExitOrders
                ELSE IF k = Len(gwCalls) THEN xpc \in {"sleep", "poll"} /\ proc = "running"
                     ELSE gwCalls[k + 1].op = "price")
    /\ [][(PollStep /\ gwCalls'[Len(gwCalls')].ok
                    /\ ~Crosses(gwCalls'[Len(gwCalls')].price))
            => (xpc' = "sleep" /\ proc' = "running")]_vars

C17_Witness ==
    /\ xpc = "closing" /\ side = "sell" /\ EntryPrice = 101
    /\ Len(gwCalls) = 4
    /\ gwCalls[3].ok /\ gwCalls[3].price = 100
    /\ gwCalls[4].ok /\ gwCalls[4].price = 99

\* C18: the aborted outcome exists only before the position is open: an
\* aborted run has made at most the two entry calls, the last of them failed,
\* and never slept; once the entry order (the second gateway call) has
\* succeeded the controller is never aborted, and the process has exited only
\* if the last gateway call is a successful exit order, whatever lookups and
\* exit orders failed before.
EntrySucceeded == Len(gwCalls) >= 2 /\ gwCalls[2].ok
FailedCalls == { k \in 3..Len(gwCalls) : ~gwCalls[k].ok }
C18_AbortOnlyBeforeOpen ==
    /\ xpc = "aborted" =>
          /\ polls = 0 /\ Len(gwCalls) <= 2 /\ ~EntrySucceeded
          /\ Len(gwCalls) >= 1 => ~LastCall.ok
    /\ EntrySucceeded =>
          /\ xpc # "aborted"
          /\ proc \in {"running", "exited"}
          /\ proc = "exited" => (xpc = "closed" /\ Len(gwCalls) \in SuccessfulExits)
          /\ proc = "running" => xpc \in {"sleep", "poll", "closing"}

C18_Witness ==
    /\ proc = "running" /\ EntrySucceeded /\ xpc = "sleep"
    /\ \E j \in FailedCalls : gwCalls[j].op = "price"
    /\ \E k \in FailedCalls : gwCalls[k].op = "order"

\* The assets whose ROI has been computed: those of the report lines.
Candidates ==
    { longCandidates[k] : k \in 1..Len(longCandidates) }
        \cup { shortCandidates[k] : k \in 1..Len(shortCandidates) }
Reporting == mpc \in {"report_short", "done"}

\* C14 as stated: CalculateROI returns 0 if and only if the prior price is 0.
C14_Original ==
    Reporting => \A a \in Candidates : CalculateROI(a).n = 0 <=> a.Price1H = 0

\* C14: CalculateROI returns 0 if and only if the prior price is 0 or the
\* current price equals the prior price; for every nonzero prior price it
\* returns (current - prior) / prior * 100; current = 105, prior = 100 gives
\* 5, which the report prints as 5.00.
C14_RoiValue ==
    Reporting =>
        /\ \A a \in Candidates :
              LET roi == CalculateROI(a) IN
              /\ roi.d # 0
              /\ roi.n = 0 <=> (a.Price1H = 0 \/ a.CurrentPrice = a.Price1H)
              /\ a.Price1H # 0 =>
                    roi.n * a.Price1H = (a.CurrentPrice - a.Price1H) * 100 * roi.d
              /\ (a.CurrentPrice = 105 /\ a.Price1H = 100) => roi.n = 5 * roi.d
        /\ \A j \in 1..Len(asks) : \A k \in 1..Len(asks[j].assetInfo) :
              LET line == asks[j].assetInfo[k]
                  from == IF asks[j].side = "buy" THEN longCandidates ELSE shortCandidates
              IN /\ line.ROI.text = ""
                 /\ (from[k].CurrentPrice = 105 /\ from[k].Price1H = 100) =>
                       line.ROI.hundredths = 500
                 /\ from[k].Price1H = 0 => line.ROI.hundredths = 0

C14_Witness ==
    /\ mpc = "done"
    /\ \E a \in Candidates : a.Price1H = 0 /\ a.CurrentPrice = 100
    /\ \E j \in 1..Len(asks) : asks[j].assetInfo[1].ROI.hundredths = 0

\* The requests made to the narrative summarizer for one side.
AsksFor(sd) == { j \in 1..Len(asks) : asks[j].side = sd }
AskedOnceIfAny(sd, candidates) ==
    /\ Cardinality(AsksFor(sd)) = IF Len(candidates) > 0 THEN 1 ELSE 0
    /\ \A j \in AsksFor(sd) : asks[j].assetInfo = AssetInfo(candidates)

\* C15: no request is made before the join; after the long report the
\* summarizer has been asked exactly once for "buy" if the long set is not
\* empty and not at all if it is, and likewise for "sell" after the short
\* report; the long request comes first; whatever the outcome of the long
\* request, AnalyzeTrends goes on to the short report, and no step after the
\* join changes either candidate set.
C15_SummarizerOncePerSet ==
    /\ [](/\ mpc \in {"start", "launch", "wait", "report_long"} => asks = <<>>
          /\ mpc = "report_short" =>
                AskedOnceIfAny("buy", longCandidates) /\ AsksFor("sell") = {}
          /\ mpc = "done" =>
                /\ AskedOnceIfAny("buy", longCandidates)
                /\ AskedOnceIfAny("sell", shortCandidates)
                /\ \A j \in AsksFor("buy") : j = 1)
    /\ [][(mpc = "report_long" /\ mpc' # mpc) => mpc' = "report_short"]_vars
    /\ [][PostJoin =>
            (longCandidates' = longCandidates /\ shortCandidates' = shortCandidates)]_vars

C15_Witness ==
    /\ mpc = "done" /\ Len(asks) = 2
    /\ asks[1].side = "buy" /\ ~asks[1].ok
    /\ asks[2].side = "sell"

\* C16: no failed collaborator call ends the process abnormally: when the
\* market-universe lookup of the analysis command fails, the process is still
\* running or has exited by returning from main, never killed on the spot.
C16_Original ==
    (mode = "analysis" /\ topResp.err) => proc \in {"running", "exited"}

\* The program points between mu.Lock() and mu.Unlock().
CriticalSection ==
    {"long_load", "long_store", "long_unlock", "short_load", "short_store", "short_unlock"}
InCriticalSection == { i \in Symbols : tpc[i] \in CriticalSection }
\* The holder of the mutex stands at a step of the critical section, whose
\* actions wait for nothing but the process being alive.
HolderCanStep == Running("analysis") /\ mu \in Tasks /\ tpc[mu] \in CriticalSection

\* C19: a task is between Lock and Unlock exactly when it holds the mutex, so
\* at most one task is there at a time and the mutex is not held during the
\* gateway call, the parsing, the indicator computation, nor when the task
\* returns; every change of a candidate set is the append of the task that
\* holds the mutex; and while the process runs the holder can always take
\* its next step towards Unlock, so a waiting task is not blocked forever.
C19_AppendsUnderMutex ==
    /\ [](/\ \A i \in Symbols : tpc[i] \in CriticalSection <=> mu = i
          /\ Cardinality(InCriticalSection) <= 1
          /\ (mu # 0 /\ proc = "running") => HolderCanStep)
    /\ [][longCandidates' # longCandidates =>
            \E i \in Symbols :
                /\ mu = i /\ tpc[i] = "long_store" /\ tpc'[i] = "long_unlock"
                /\ longCandidates' = Append(longCandidates, AssetOf(pairs[i]))]_vars
    /\ [][shortCandidates' # shortCandidates =>
            \E i \in Symbols :
                /\ mu = i /\ tpc[i] = "short_store" /\ tpc'[i] = "short_unlock"
                /\ shortCandidates' = Append(shortCandidates, AssetOf(pairs[i]))]_vars

C19_Witness ==
    \E i, j \in Symbols :
        /\ tpc[i] = "short_store" /\ mu = i
        /\ tpc[j] = "long_lock"
        /\ longCandidates = <<>>

\* The gateway calls after the m-th are all favourable to closing: each
\* succeeded, and each lookup returned a price that crosses the target.
FavourableAfter(m) ==
    \A k \in (m + 1)..Len(gwCalls) :
        gwCalls[k].ok /\ (gwCalls[k].op = "price" => Crosses(gwCalls[k].price))
\* The position is open after m gateway calls and the loop can go on (the
\* model allows another poll).
OpenAfter(m) ==
    /\ EntrySucceeded /\ Len(gwCalls) = m /\ Monitored
    /\ xpc = "sleep" => polls < MaxPolls
Closed == xpc = "closed" /\ proc = "exited" /\ Len(gwCalls) \in SuccessfulExits

\* C20: with the loop scheduled fairly, from any point at which the position
\* is open, either some later lookup fails or returns a price that does not
\* cross the target, or some later exit order fails, or else the exit order
\* is placed, the controller reaches closed and the process exits.
C20_OpenPositionCloses ==
    \A m \in 2..(2 + 2 * MaxPolls) :
        OpenAfter(m) ~> (~FavourableAfter(m) \/ Closed)

\* Without the favourable answers the position need not close.
C20_ClosesRegardless ==
    \A m \in 2..(2 + 2 * MaxPolls) : OpenAfter(m) ~> Closed

C20_Witness ==
    /\ xpc = "closed" /\ proc = "exited" /\ polls < MaxPolls
    /\ FailedCalls # {}
    /\ IsCrossingPoll(Len(gwCalls) - 1)
    /\ Len(gwCalls) \in SuccessfulExits

\* The history fetched for symbol p has a candle record without a close field.
Truncated(p) ==
    /\ ~klineResp[p].err
    /\ \E k \in 1..Len(klineResp[p].data) : Len(klineResp[p].data[k]) <= CloseField

\* C21: a candle record with fewer than three fields is a failure local to
\* its symbol: with such a history in the scanned universe the process is
\* never killed; it keeps running towards the join and the reports, or has
\* exited by returning from main.
C21_Original ==
    (\E i \in Tasks : Truncated(pairs[i])) => proc \in {"running", "exited"}

\* C22: no entry order is placed when the entry price lookup returned 0
\* without an error: every order of the run follows a nonzero entry price and
\* carries a finite size.
C22_Original ==
    \A k \in Orders : EntryPrice # 0 /\ gwCalls[k].size.text = ""

====
